---- MODULE Spec2Model ----
(***************************************************************************)
(* Magic-Notes: a notes widget persisted in localStorage.  The repository  *)
(* holds two versions of the script: src/app.js and src/unnamed/part_000.  *)
(* Their store functions (Note, getNotes, saveNotes, saveNewNote,          *)
(* deleteNote, deleteAllNotes) and their rendering are the same code; they *)
(* differ in the delete handlers and in the "delete all" button logic.     *)
(* The variable `script` says which of the two the page runs.              *)
(*                                                                         *)
(* A JavaScript string is modelled as a sequence of one-character strings, *)
(* so that trim(), toLowerCase() and includes() are computed.              *)
(***************************************************************************)
EXTENDS Integers, Sequences, FiniteSets, TLC

\* ------------------------------------------------------------- bounds
\* The most notes the store holds in a run (the add action stops there).
MaxNotes == 2
\* The size of the pool crypto.randomUUID() draws from.
MaxUuid == 3

UUIDs == 1..MaxUuid

\* ------------------------------------------------------------ strings
\* String.prototype.trim(): the white space of the inputs is the blank.
IsWhite(c) == c = " "

RECURSIVE trimStart(_)
trimStart(s) ==
    IF s # <<>> /\ IsWhite(Head(s)) THEN trimStart(Tail(s)) ELSE s

RECURSIVE trimEnd(_)
trimEnd(s) ==
    IF s # <<>> /\ IsWhite(s[Len(s)]) THEN trimEnd(SubSeq(s, 1, Len(s) - 1)) ELSE s

trim(s) == trimEnd(trimStart(s))

\* String.prototype.toLowerCase(), on the letters the inputs use.
LowerChar(c) ==
    CASE c = "A" -> "a"
      [] c = "B" -> "b"
      [] c = "U" -> "u"
      [] OTHER -> c

toLowerCase(s) == [i \in 1..Len(s) |-> LowerChar(s[i])]

\* String.prototype.includes(): t occurs in s as a contiguous substring.
includes(s, t) ==
    \E i \in 0..(Len(s) - Len(t)) : SubSeq(s, i + 1, i + Len(t)) = t

\* The literal "Untitled" of the add handler.
Untitled == <<"U", "n", "t", "i", "t", "l", "e", "d">>

\* What the user types or selects.
TitleInputs == {<<>>, <<" ">>, <<" ", "A", "b">>}
ContentInputs == {<<>>, <<" ">>, <<" ", "a">>}
SearchInputs == {<<>>, <<"B">>, <<"a", "b">>}
ColorInputs == {"yellow"}
\* What the user answers to prompt(): the word, the word in another case, Cancel.
PromptInputs == {"delete", "Delete", "null"}

\* ---------------------------------------------------------------- Note
NoteKeys == <<"uuid", "title", "content", "color">>

\* new Note(title, content, color): uuid is what crypto.randomUUID() returned.
Note(uuid, title, content, color) ==
    [uuid |-> uuid, title |-> title, content |-> content, color |-> color]

\* new Note(): the default parameters.
DefaultNote(uuid) == Note(uuid, <<>>, <<>>, "white")

\* Mutant of fromObj: the uuid of the new Note() is kept.
fromObjKeepsFreshUuid(obj, uuid) ==
    [k \in {"uuid", "title", "content", "color"} |->
        IF k \in DOMAIN obj /\ k # "uuid" THEN obj[k] ELSE DefaultNote(uuid)[k]]

\* Note.fromObj(obj): Object.assign(new Note(), obj); uuid is the random uuid of
\* the new Note(), which obj's own uuid (when it has one) overwrites.
fromObj(obj, uuid) ==
    [k \in {"uuid", "title", "content", "color"} |->
        IF k \in DOMAIN obj THEN obj[k] ELSE DefaultNote(uuid)[k]]

\* ---------------------------------------------------------------- JSON
\* A JSON text is modelled as the sequence of its objects, each the sequence of
\* its members <<key, value>> in the order they are written.
\* JSON.stringify(notes): the own properties of each note, in creation order.
stringify(notes) ==
    [i \in 1..Len(notes) |->
        [j \in 1..Len(NoteKeys) |-> <<NoteKeys[j], notes[i][NoteKeys[j]]>>]]

\* JSON.parse(text): each object maps a key to the value of its last member of
\* that key.
parseObj(members) ==
    [k \in {members[j][1] : j \in 1..Len(members)} |->
        members[CHOOSE j \in 1..Len(members) :
                    /\ members[j][1] = k
                    /\ \A h \in 1..Len(members) : members[h][1] = k => h <= j][2]]

parse(text) == [i \in 1..Len(text) |-> parseObj(text[i])]

\* -------------------------------------------------------- localStorage
NOTES_LOCAL_STORAGE_KEY == "notes"

\* The text "[]".
EmptyArrayText == <<>>

\* localStorage is a map from the keys that were set to their texts.
NoItems == [k \in {} |-> <<>>]

setItem(ls, key, text) ==
    [k \in (DOMAIN ls) \cup {key} |-> IF k = key THEN text ELSE ls[k]]

\* The draws of crypto.randomUUID() a handler discards: rnd[i] is the uuid of
\* the i-th new Note() that Note.fromObj overwrites.
RandomDraws ==
    {[i \in 1..(MaxNotes + 1) |-> ((i + k) % MaxUuid) + 1] : k \in 0..(MaxUuid - 1)}

\* getNotes(): localStorage.getItem(KEY) || "[]", parsed, each object made a Note.
getNotes(ls, rnd) ==
    LET jsonObjs == IF NOTES_LOCAL_STORAGE_KEY \in DOMAIN ls
                    THEN ls[NOTES_LOCAL_STORAGE_KEY] ELSE EmptyArrayText
        objs == parse(jsonObjs)
    IN  [i \in 1..Len(objs) |-> fromObj(objs[i], rnd[i])]

\* saveNotes(notes)
saveNotes(ls, notes) == setItem(ls, NOTES_LOCAL_STORAGE_KEY, stringify(notes))

\* Mutant of saveNewNote: unshift in place of push.
saveNewNotePrepends(ls, note, rnd) == saveNotes(ls, <<note>> \o getNotes(ls, rnd))

\* saveNewNote(note)
saveNewNote(ls, note, rnd) == saveNotes(ls, Append(getNotes(ls, rnd), note))

\* The store half of deleteNote(uuid): filter and save.
RemoveNote(ls, uuid, rnd) ==
    saveNotes(ls, SelectSeq(getNotes(ls, rnd), LAMBDA note : note.uuid # uuid))

\* ------------------------------------------------------------ rendering
\* The filter of updateDisplayedNotes: only the search text is lower-cased.
Matches(note, searchText) ==
    \/ includes(note.title, toLowerCase(searchText))
    \/ includes(note.content, toLowerCase(searchText))

\* One card of the notes container.
Card(note) ==
    [color |-> note.color, uuid |-> note.uuid, title |-> note.title,
     content |-> note.content]

\* updateDisplayedNotes(): the new innerHTML of the notes container, either the
\* "Nothing to show!" placeholder or the cards of the matched notes.
updateDisplayedNotes(ls, searchText, rnd) ==
    LET notes == getNotes(ls, rnd)
        matchedNotes == SelectSeq(notes, LAMBDA note : Matches(note, searchText))
    IN  IF Len(matchedNotes) = 0
        THEN [placeholder |-> TRUE, cards |-> <<>>]
        ELSE [placeholder |-> FALSE,
              cards |-> [i \in 1..Len(matchedNotes) |-> Card(matchedNotes[i])]]

\* updateDeleteAllNotesButtonVisibility(): whether the button has class "hidden".
updateDeleteAllNotesButtonVisibility(ls, rnd) == Len(getNotes(ls, rnd)) = 0

\* ---------------------------------------------------------------- state
VARIABLES
    script,            \* which script the page runs: "app.js" or "part_000"
    localStorage,      \* the keys that were set, each with its text
    drawn,             \* how many uuids crypto.randomUUID() gave to added notes
    txtContent,        \* value of the new-note content textarea
    txtSearch,         \* value of the search input
    addDisabled,       \* the add button's disabled property
    delAllHidden,      \* whether the "delete all" button is hidden
    notesContainer,    \* innerHTML of the notes container
    event,             \* the event or call handled last
    arg,               \* the uuid that event passed to deleteNote (0: none)
    dialog,            \* the dialog the last handler opened: none, confirm, prompt
    answer,            \* what the user answered to it
    alerted,           \* whether the last handler called alert()
    contentInputSeen,  \* a content-input event was handled since the page loaded
    added,             \* history: the notes passed to saveNewNote, in order
    removed,           \* history: the uuids deleted since each was added
    before,            \* history: what getNotes() returned before the last call
    saved,             \* history: the notes last passed to saveNotes
    reads              \* history: what each getNotes() since then returned

domVars == <<txtContent, txtSearch, addDisabled, delAllHidden, notesContainer>>
dialogVars == <<dialog, answer, alerted>>
storeHistory == <<added, removed, before>>
roundTripHistory == <<saved, reads>>
vars == <<script, localStorage, drawn, domVars, event, arg, dialogVars,
          contentInputSeen, storeHistory, roundTripHistory>>

Scripts == {"app.js", "part_000"}

\* One draw, for the formulas that read the store.
SomeDraw == CHOOSE rnd \in RandomDraws : TRUE

\* What getNotes() returns in the current state.
StoredNotes == getNotes(localStorage, SomeDraw)

Uuids(notes) == {notes[i].uuid : i \in 1..Len(notes)}

NoDialog == /\ dialog' = "none"
            /\ answer' = "none"
            /\ alerted' = FALSE

\* The add button's disabled attribute in the page's markup.
InitialAddDisabled == TRUE

\* ----------------------------------------------------- script functions
\* Mutant of deleteNote: updateDisplayedNotes() is not called.
deleteNoteSkipsRender(uuid, rnd) ==
    /\ localStorage' = RemoveNote(localStorage, uuid, rnd)
    /\ UNCHANGED notesContainer

\* Mutant of deleteNote: the filter tests === in place of !==.
deleteNoteKeepsMatching(uuid, rnd) ==
    /\ localStorage' = saveNotes(localStorage,
           SelectSeq(getNotes(localStorage, rnd), LAMBDA note : note.uuid = uuid))
    /\ notesContainer' = updateDisplayedNotes(localStorage', txtSearch, rnd)

\* deleteNote(uuid)
deleteNote(uuid, rnd) ==
    /\ localStorage' = RemoveNote(localStorage, uuid, rnd)
    /\ notesContainer' = updateDisplayedNotes(localStorage', txtSearch, rnd)

\* deleteAllNotes()
deleteAllNotes(rnd) ==
    /\ localStorage' = saveNotes(localStorage, <<>>)
    /\ notesContainer' = updateDisplayedNotes(localStorage', txtSearch, rnd)

\* --------------------------------------------------------------- events
\* The script's top level, run when the page loads: both scripts render; only
\* part_000 computes the "delete all" button's visibility, app.js leaves it as
\* the markup has it.
Init ==
    /\ script \in Scripts
    /\ localStorage = NoItems
    /\ drawn = 0
    /\ txtContent = <<>>
    /\ txtSearch = <<>>
    /\ addDisabled = InitialAddDisabled
    /\ notesContainer = updateDisplayedNotes(localStorage, txtSearch, SomeDraw)
    /\ delAllHidden \in IF script = "part_000"
                        THEN {updateDeleteAllNotesButtonVisibility(localStorage, SomeDraw)}
                        ELSE BOOLEAN
    /\ event = "load"
    /\ arg = 0
    /\ dialog = "none"
    /\ answer = "none"
    /\ alerted = FALSE
    /\ contentInputSeen = FALSE
    /\ added = <<>>
    /\ removed = {}
    /\ before = <<>>
    /\ saved = <<>>
    /\ reads = <<>>

\* The page is loaded again: the inputs are those of the markup, the store is
\* what it was, and the script's top level runs.
Load ==
    \E rnd \in RandomDraws :
        /\ event' = "load"
        /\ arg' = 0
        /\ txtContent' = <<>>
        /\ txtSearch' = <<>>
        /\ addDisabled' = InitialAddDisabled
        /\ notesContainer' = updateDisplayedNotes(localStorage, txtSearch', rnd)
        /\ delAllHidden' = IF script = "part_000"
                           THEN updateDeleteAllNotesButtonVisibility(localStorage, rnd)
                           ELSE delAllHidden
        /\ contentInputSeen' = FALSE
        /\ NoDialog
        /\ UNCHANGED <<script, localStorage, drawn, storeHistory, roundTripHistory>>

\* Mutant of ContentInput: the value is not trimmed.
ContentInputNoTrim(text) ==
    /\ event' = "contentInput"
    /\ arg' = 0
    /\ txtContent' = text
    /\ addDisabled' = (Len(text) = 0)
    /\ contentInputSeen' = TRUE
    /\ NoDialog
    /\ UNCHANGED <<script, localStorage, drawn, txtSearch, delAllHidden,
                   notesContainer, storeHistory, roundTripHistory>>

\* "input" on the content textarea, whose value is now text.
ContentInput(text) ==
    /\ event' = "contentInput"
    /\ arg' = 0
    /\ txtContent' = text
    /\ addDisabled' = (Len(trim(text)) = 0)
    /\ contentInputSeen' = TRUE
    /\ NoDialog
    /\ UNCHANGED <<script, localStorage, drawn, txtSearch, delAllHidden,
                   notesContainer, storeHistory, roundTripHistory>>

\* Mutant of AddClick: the button is not disabled.
AddClickLeavesEnabled(titleInput, color, uuid, rnd) ==
    LET title == IF trim(titleInput) = <<>> THEN Untitled ELSE trim(titleInput)
        note == Note(uuid, title, txtContent, color)
    IN  /\ ~addDisabled
        /\ Len(getNotes(localStorage, rnd)) < MaxNotes
        /\ uuid = drawn + 1
        /\ event' = "addClick"
        /\ arg' = 0
        /\ addDisabled' = FALSE
        /\ drawn' = uuid
        /\ localStorage' = saveNewNote(localStorage, note, rnd)
        /\ txtContent' = <<>>
        /\ notesContainer' = updateDisplayedNotes(localStorage', txtSearch, rnd)
        /\ delAllHidden' = IF script = "part_000"
                           THEN updateDeleteAllNotesButtonVisibility(localStorage', rnd)
                           ELSE delAllHidden
        /\ NoDialog
        /\ UNCHANGED <<script, txtSearch, contentInputSeen, storeHistory,
                       roundTripHistory>>

\* "click" on the add button, which a disabled button does not dispatch.  The
\* title input holds titleInput, the color selector color; uuid is the draw of
\* crypto.randomUUID() in new Note(), unlike every uuid drawn before.  The
\* script only compares uuids for equality, so the draws are named 1, 2, ... in
\* the order they are made.  A run adds while the store holds fewer than
\* MaxNotes notes and draws remain.
AddClick(titleInput, color, uuid, rnd) ==
    LET title == IF trim(titleInput) = <<>> THEN Untitled ELSE trim(titleInput)
        note == Note(uuid, title, txtContent, color)
    IN  /\ ~addDisabled
        /\ Len(getNotes(localStorage, rnd)) < MaxNotes
        /\ uuid = drawn + 1
        /\ event' = "addClick"
        /\ arg' = 0
        /\ addDisabled' = TRUE
        /\ drawn' = uuid
        /\ localStorage' = saveNewNote(localStorage, note, rnd)
        /\ txtContent' = <<>>
        /\ notesContainer' = updateDisplayedNotes(localStorage', txtSearch, rnd)
        /\ delAllHidden' = IF script = "part_000"
                           THEN updateDeleteAllNotesButtonVisibility(localStorage', rnd)
                           ELSE delAllHidden
        /\ NoDialog
        /\ UNCHANGED <<script, txtSearch, contentInputSeen, storeHistory,
                       roundTripHistory>>

\* The user presses the add button while it is disabled: no click is dispatched
\* and no handler runs.
AddClickDisabled ==
    /\ addDisabled
    /\ event' = "addClickDisabled"
    /\ arg' = 0
    /\ NoDialog
    /\ UNCHANGED <<script, localStorage, drawn, domVars, contentInputSeen,
                   storeHistory, roundTripHistory>>

\* "input" on the search field, whose value is now text.
SearchInput(text, rnd) ==
    /\ event' = "searchInput"
    /\ arg' = 0
    /\ txtSearch' = text
    /\ notesContainer' = updateDisplayedNotes(localStorage, text, rnd)
    /\ NoDialog
    /\ UNCHANGED <<script, localStorage, drawn, txtContent, addDisabled, delAllHidden,
                   contentInputSeen, storeHistory, roundTripHistory>>

\* app.js: "Delete Note" of the i-th card, onclick="deleteNote(this.id)".
DeleteNoteButtonClick(i, rnd) ==
    /\ script = "app.js"
    /\ i \in 1..Len(notesContainer.cards)
    /\ event' = "deleteNoteClick"
    /\ arg' = notesContainer.cards[i].uuid
    /\ deleteNote(notesContainer.cards[i].uuid, rnd)
    /\ NoDialog
    /\ UNCHANGED <<script, drawn, txtContent, txtSearch, addDisabled, delAllHidden,
                   contentInputSeen, storeHistory, roundTripHistory>>

\* part_000: handleDeleteNoteLinkClick(ele) on the "X" of the i-th card; ok is
\* what confirm() returned.
DeleteNoteLinkClick(i, ok, rnd) ==
    /\ script = "part_000"
    /\ i \in 1..Len(notesContainer.cards)
    /\ event' = "deleteNoteClick"
    /\ arg' = notesContainer.cards[i].uuid
    /\ dialog' = "confirm"
    /\ answer' = IF ok THEN "ok" ELSE "cancel"
    /\ alerted' = FALSE
    /\ IF ok
       THEN /\ deleteNote(notesContainer.cards[i].uuid, rnd)
            /\ delAllHidden' = updateDeleteAllNotesButtonVisibility(localStorage', rnd)
       ELSE UNCHANGED <<localStorage, notesContainer, delAllHidden>>
    /\ UNCHANGED <<script, drawn, txtContent, txtSearch, addDisabled,
                   contentInputSeen, storeHistory, roundTripHistory>>

\* app.js: "click" on the delete-all button; typed is what prompt() returned.
DeleteAllClickPrompt(typed, rnd) ==
    /\ script = "app.js"
    /\ ~delAllHidden
    /\ event' = "deleteAllClick"
    /\ arg' = 0
    /\ dialog' = "prompt"
    /\ answer' = typed
    /\ IF typed = "delete"
       THEN /\ deleteAllNotes(rnd)
            /\ alerted' = FALSE
       ELSE /\ alerted' = TRUE
            /\ UNCHANGED <<localStorage, notesContainer>>
    /\ UNCHANGED <<script, drawn, txtContent, txtSearch, addDisabled, delAllHidden,
                   contentInputSeen, storeHistory, roundTripHistory>>

\* part_000: "click" on the delete-all button; ok is what confirm() returned.
DeleteAllClickConfirm(ok, rnd) ==
    /\ script = "part_000"
    /\ ~delAllHidden
    /\ event' = "deleteAllClick"
    /\ arg' = 0
    /\ dialog' = "confirm"
    /\ answer' = IF ok THEN "ok" ELSE "cancel"
    /\ alerted' = FALSE
    /\ IF ok
       THEN /\ deleteAllNotes(rnd)
            /\ delAllHidden' = updateDeleteAllNotesButtonVisibility(localStorage', rnd)
       ELSE UNCHANGED <<localStorage, notesContainer, delAllHidden>>
    /\ UNCHANGED <<script, drawn, txtContent, txtSearch, addDisabled,
                   contentInputSeen, storeHistory, roundTripHistory>>

\* ---------------------------------------------------------- store calls
\* The notes a caller of the store functions passes.
NoteTitles == {Untitled, <<"A", "b">>}
NoteContents == {<<" ", "a">>}
NoteColors == {"white", "yellow"}

\* saveNewNote(note) called with a note new Note(title, content, color) made.
CallSaveNewNote(title, content, color, rnd) ==
    LET note == Note(drawn + 1, title, content, color)
    IN  /\ drawn < MaxUuid
        /\ Len(getNotes(localStorage, rnd)) < MaxNotes
        /\ event' = "saveNewNote"
        /\ arg' = 0
        /\ drawn' = drawn + 1
        /\ localStorage' = saveNewNote(localStorage, note, rnd)
        /\ added' = Append(added, note)
        /\ before' = getNotes(localStorage, rnd)
        /\ NoDialog
        /\ UNCHANGED <<script, domVars, contentInputSeen, removed, roundTripHistory>>

\* deleteNote(uuid) called with any uuid, stored or not.
CallDeleteNote(uuid, rnd) ==
    /\ event' = "deleteNote"
    /\ arg' = uuid
    /\ deleteNote(uuid, rnd)
    /\ removed' = removed \cup ({uuid} \cap Uuids(added))
    /\ before' = getNotes(localStorage, rnd)
    /\ NoDialog
    /\ UNCHANGED <<script, drawn, txtContent, txtSearch, addDisabled, delAllHidden,
                   contentInputSeen, added, roundTripHistory>>

\* deleteAllNotes() called.
CallDeleteAllNotes(rnd) ==
    /\ event' = "deleteAllNotes"
    /\ arg' = 0
    /\ deleteAllNotes(rnd)
    /\ removed' = Uuids(added)
    /\ before' = getNotes(localStorage, rnd)
    /\ NoDialog
    /\ UNCHANGED <<script, drawn, txtContent, txtSearch, addDisabled, delAllHidden,
                   contentInputSeen, added, roundTripHistory>>

NextStore ==
    \/ \E title \in NoteTitles, content \in NoteContents, color \in NoteColors,
          rnd \in RandomDraws : CallSaveNewNote(title, content, color, rnd)
    \/ \E uuid \in UUIDs, rnd \in RandomDraws : CallDeleteNote(uuid, rnd)
    \/ \E rnd \in RandomDraws : CallDeleteAllNotes(rnd)

\* The store functions called in any order, from a store never written.  The
\* two scripts hold the same text of them: the calls are made in part_000's page.
InitStore == Init /\ script = "part_000"

SpecStore == InitStore /\ [][NextStore]_vars

\* saveNotes(notes) called with any array of notes: the array saved last with
\* one more note (of any uuid, also one it holds already), or without its first.
CallSaveNotes(notes) ==
    /\ Len(notes) <= MaxNotes
    /\ event' = "saveNotes"
    /\ arg' = 0
    /\ localStorage' = saveNotes(localStorage, notes)
    /\ saved' = notes
    /\ reads' = <<>>
    /\ NoDialog
    /\ UNCHANGED <<script, drawn, domVars, contentInputSeen, storeHistory>>

\* getNotes() called; rnd are its draws of crypto.randomUUID().
CallGetNotes(rnd) ==
    /\ Len(reads) < 2
    /\ event' = "getNotes"
    /\ arg' = 0
    /\ reads' = Append(reads, getNotes(localStorage, rnd))
    /\ NoDialog
    /\ UNCHANGED <<script, localStorage, drawn, domVars, contentInputSeen,
                   storeHistory, saved>>

NextRoundTrip ==
    \/ \E uuid \in UUIDs, title \in NoteTitles, content \in NoteContents,
          color \in NoteColors :
          CallSaveNotes(Append(saved, Note(uuid, title, content, color)))
    \/ saved # <<>> /\ CallSaveNotes(Tail(saved))
    \/ \E rnd \in RandomDraws : CallGetNotes(rnd)

\* saveNotes and getNotes called in any order.
SpecRoundTrip == Init /\ [][NextRoundTrip]_vars

Next ==
    \/ Load
    \/ \E text \in ContentInputs : ContentInput(text)
    \/ \E titleInput \in TitleInputs, color \in ColorInputs, uuid \in UUIDs,
          rnd \in RandomDraws : AddClick(titleInput, color, uuid, rnd)
    \/ AddClickDisabled
    \/ \E text \in SearchInputs, rnd \in RandomDraws : SearchInput(text, rnd)
    \/ \E i \in 1..MaxNotes, rnd \in RandomDraws : DeleteNoteButtonClick(i, rnd)
    \/ \E i \in 1..MaxNotes, ok \in BOOLEAN, rnd \in RandomDraws :
          DeleteNoteLinkClick(i, ok, rnd)
    \/ \E typed \in PromptInputs, rnd \in RandomDraws : DeleteAllClickPrompt(typed, rnd)
    \/ \E ok \in BOOLEAN, rnd \in RandomDraws : DeleteAllClickConfirm(ok, rnd)

Spec == Init /\ [][Next]_vars


\* --------------------------------------------------------------- claims
IsBlank(text) == Len(trim(text)) = 0

\* The notes of `notes` a case-insensitive search for searchText finds: both the
\* field and the search text lower-cased.
FoundIgnoringCase(note, searchText) ==
    \/ includes(toLowerCase(note.title), toLowerCase(searchText))
    \/ includes(toLowerCase(note.content), toLowerCase(searchText))

Displayed(note) ==
    \E j \in 1..Len(notesContainer.cards) : notesContainer.cards[j].uuid = note.uuid

\* The last handler asked the user and the user agreed.
Affirmed == dialog # "none" /\ answer \in {"ok", "delete"}

\* The last handler asked the user and the user did not agree.
Declined == dialog # "none" /\ answer \notin {"ok", "delete"}

\* C1: after any sequence of saveNewNote, deleteNote and deleteAllNotes calls
\* from a store never written, getNotes() returns exactly the notes added and
\* not deleted since, in the order they were added, no two with the same uuid.
C1_SurvivorsInInsertionOrder ==
    /\ StoredNotes = SelectSeq(added, LAMBDA note : note.uuid \notin removed)
    /\ \A i, j \in 1..Len(StoredNotes) :
          StoredNotes[i].uuid = StoredNotes[j].uuid => i = j

\* C1 witness: two notes survive, added after an earlier note was deleted.
C1_Witness ==
    /\ event = "saveNewNote"
    /\ Len(StoredNotes) = 2
    /\ 1 \in removed
    /\ Len(added) = 3

\* C2: a stored note is displayed iff its title or its content contains the
\* search text, both lower-cased.  The code lower-cases the search text only.
C2_DisplayedIffFoundIgnoringCase ==
    \A i \in 1..Len(StoredNotes) :
        Displayed(StoredNotes[i]) <=> FoundIgnoringCase(StoredNotes[i], txtSearch)

\* C3: pressing add while the content input is blank (empty or white space
\* only) leaves the stored collection as it was and the add button disabled.
C3_BlankAddRejected ==
    [][(IsBlank(txtContent) /\ event' \in {"addClick", "addClickDisabled"})
          => (getNotes(localStorage', SomeDraw) = StoredNotes /\ addDisabled')]_vars

\* C3 witness: add was pressed with white space in the content input and notes
\* in the store, and nothing was added.
C3_Witness ==
    /\ event = "addClickDisabled"
    /\ txtContent = <<" ">>
    /\ Len(StoredNotes) = 1
    /\ addDisabled

\* C4: a note leaves the collection only in a step whose handler asked for
\* confirmation and was answered affirmatively.
C4_RemovalOnlyAfterConfirmation ==
    [][(\E uuid \in Uuids(StoredNotes) :
            uuid \notin Uuids(getNotes(localStorage', SomeDraw))) => Affirmed']_vars

\* C5: when the user declines a confirmation, the handler acknowledges it with
\* a message.
C5_DeclineIsAcknowledged == Declined => alerted

\* C6: after the page loaded and after every add, delete and delete-all, the
\* "delete all" button is shown iff the stored collection is not empty.
C6_DeleteAllShownIffNotEmpty ==
    event \in {"load", "addClick", "deleteNoteClick", "deleteAllClick"}
        => (~delAllHidden <=> Len(StoredNotes) # 0)

\* C7: once a content-input event was handled, the add button is enabled iff
\* the content input, trimmed, is not empty.
C7_AddEnabledIffContent ==
    contentInputSeen => (~addDisabled <=> ~IsBlank(txtContent))

\* C7 witness: a note was added after content was typed; the input is cleared
\* and the button disabled.
C7_Witness ==
    /\ contentInputSeen
    /\ event = "addClick"
    /\ addDisabled
    /\ txtContent = <<>>

\* C8: getNotes() after saveNotes(notes) returns notes of the same uuid, title,
\* content and color in the same order, and so does every further getNotes().
C8_RoundTrip ==
    \A r \in 1..Len(reads) :
        /\ Len(reads[r]) = Len(saved)
        /\ \A i \in 1..Len(saved) :
              /\ reads[r][i].uuid = saved[i].uuid
              /\ reads[r][i].title = saved[i].title
              /\ reads[r][i].content = saved[i].content
              /\ reads[r][i].color = saved[i].color
        /\ \A q \in 1..Len(reads) :
              Len(reads[q]) = Len(reads[r])
              /\ \A i \in 1..Len(reads[r]) : reads[q][i].uuid = reads[r][i].uuid

\* C8 witness: two notes of different fields were saved and read twice.
C8_Witness ==
    /\ Len(saved) = 2
    /\ Len(reads) = 2
    /\ saved[1].title # saved[2].title
    /\ saved[1].color # saved[2].color
    /\ saved[1].uuid > saved[2].uuid

\* C9: deleteNote(uuid) removes the notes of that uuid and keeps the others in
\* their order; with a uuid that is not stored, getNotes() returns what it
\* returned before.
C9_DeleteAbsentIsNoOp ==
    event = "deleteNote" =>
        /\ StoredNotes = SelectSeq(before, LAMBDA note : note.uuid # arg)
        /\ arg \notin Uuids(before) => StoredNotes = before

\* C9 witness: deleteNote is called again with a uuid it removed, other notes
\* being stored.
C9_Witness ==
    /\ event = "deleteNote"
    /\ arg \in removed
    /\ arg \notin Uuids(before)
    /\ Len(before) = 2

\* C10: after every handler the container shows the cards of the stored notes
\* the filter keeps for the current search text, in stored order, and the
\* placeholder iff there is none.
C10_DisplayNeverStale ==
    LET shown == SelectSeq(StoredNotes, LAMBDA note : Matches(note, txtSearch))
    IN  /\ Len(notesContainer.cards) = Len(shown)
        /\ \A i \in 1..Len(shown) : notesContainer.cards[i] = Card(shown[i])
        /\ notesContainer.placeholder <=> Len(shown) = 0

\* C10 witness: a note hidden by the search text was stored beside one shown,
\* and the shown one was deleted: the placeholder is displayed.
C10_Witness ==
    /\ event = "deleteNoteClick"
    /\ txtSearch # <<>>
    /\ Len(StoredNotes) = 1
    /\ notesContainer.placeholder

====
